---- MODULE Spec2Model ----
(***************************************************************************)
(* Model of ff.py: the flip-flop / total cell count reporter.              *)
(*                                                                         *)
(* Text is a sequence of one-character strings.  The three regular         *)
(* expressions of get_counts are modelled as scanners over such            *)
(* sequences, the floats of main as exact fractions, and the ":.Nf"        *)
(* conversions as decimal rounding of those fractions.                     *)
(***************************************************************************)
EXTENDS Integers, Sequences, FiniteSets, TLC

VARIABLES
    args,            \* the parsed command line (argparse namespace)
    discovered,      \* what discover_designs("artifacts") returns
    artifacts,       \* tags t for which artifacts/<t>.il exists
    pc,              \* position in main / in the function under check
    designs_to_run,  \* list of <<design, tag>>
    idx,             \* index of the design the for loop is at
    proc,            \* the CompletedProcess of the latest invocation
    output,          \* main's variable output: the latest raw text
    counts,          \* what get_counts returned for the current design
    results,         \* list of result records
    row,             \* index of the record the rendering loop is at
    calls,           \* subprocess invocations made so far, in order
    stdout,          \* lines printed to standard output
    stderr,          \* lines printed to the error stream
    exit_code        \* <<status>> once the process has exited, <<>> before

vars == <<args, discovered, artifacts, pc, designs_to_run, idx, proc, output,
          counts, results, row, calls, stdout, stderr, exit_code>>

None == "None"

----------------------------------------------------------------------------
(* Bounds of the model *)

\* longest list of designs (discovery result)
MaxDesigns == 2
\* number of report fragments concatenated into a text for the extractor
MaxFrags == 3
\* largest extracted count / area fed to the metrics calculation
MaxCount == 6
\* largest --ff-size fed to the metrics calculation
MaxWeight == 3

----------------------------------------------------------------------------
(* Characters and character classes of Python's re module *)

Digits == <<"0", "1", "2", "3", "4", "5", "6", "7", "8", "9">>

Letters == {"a", "b", "c", "d", "e", "f", "g", "h", "i", "j", "k", "l", "m",
            "n", "o", "p", "q", "r", "s", "t", "u", "v", "w", "x", "y", "z"}

\* \d
IsDigit(c) == \E k \in 1..10 : Digits[k] = c

\* \s
IsSpace(c) == c \in {" ", "\t", "\n", "\r"}

\* \w
IsWord(c) == c \in Letters \/ IsDigit(c) \/ c = "_"

DigitVal(c) == (CHOOSE k \in 1..10 : Digits[k] = c) - 1

\* int(<digit string>)
RECURSIVE IntOf(_)
IntOf(ds) ==
    IF ds = <<>> THEN 0
    ELSE 10 * IntOf(SubSeq(ds, 1, Len(ds) - 1)) + DigitVal(ds[Len(ds)])

\* position after the longest run of digits starting at i (greedy \d*)
RECURSIVE DigitsEnd(_, _)
DigitsEnd(s, i) ==
    IF i <= Len(s) /\ IsDigit(s[i]) THEN DigitsEnd(s, i + 1) ELSE i

\* position after the longest run of whitespace starting at i (greedy \s*)
RECURSIVE SpaceEnd(_, _)
SpaceEnd(s, i) ==
    IF i <= Len(s) /\ IsSpace(s[i]) THEN SpaceEnd(s, i + 1) ELSE i

\* the literal lit occurs in s at position i
LitAt(s, i, lit) ==
    /\ i >= 1
    /\ i + Len(lit) - 1 <= Len(s)
    /\ \A k \in 1..Len(lit) : s[i + k - 1] = lit[k]

\* \b at position i: exactly one of the characters around i is a word character
WordBoundary(s, i) ==
    LET before == i > 1 /\ i - 1 <= Len(s) /\ IsWord(s[i - 1])
        after  == i >= 1 /\ i <= Len(s) /\ IsWord(s[i])
    IN  before # after

\* ^ and $ under re.MULTILINE
AtLineStart(s, i) == i = 1 \/ (i > 1 /\ i - 1 <= Len(s) /\ s[i - 1] = "\n")
AtLineEnd(s, i) == i = Len(s) + 1 \/ (i <= Len(s) /\ s[i] = "\n")

LitObjects == <<" ", "o", "b", "j", "e", "c", "t", "s">>
LitCells == <<"c", "e", "l", "l", "s">>
LitAnd == <<"a", "n", "d">>

----------------------------------------------------------------------------
(* re.findall(r'(\d+) objects', output) *)

\* end of a match of (\d+) objects that starts at i, 0 when there is none.
\* \d+ is greedy; a shorter run would have to be followed by a space where a
\* digit stands, so only the longest run can match.
ObjectsMatchEnd(s, i) ==
    IF i <= Len(s) /\ IsDigit(s[i])
    THEN LET j == DigitsEnd(s, i)
         IN  IF LitAt(s, j, LitObjects) THEN j + Len(LitObjects) ELSE 0
    ELSE 0

\* the group-1 strings of all non-overlapping matches, scanning from i
RECURSIVE FindallObjects(_, _)
FindallObjects(s, i) ==
    IF i > Len(s) THEN <<>>
    ELSE LET e == ObjectsMatchEnd(s, i)
         IN  IF e # 0
             THEN <<SubSeq(s, i, DigitsEnd(s, i) - 1)>> \o FindallObjects(s, e)
             ELSE FindallObjects(s, i + 1)

----------------------------------------------------------------------------
(* re.search(r'^\s*(\d+)\s+cells\s*$', output, re.MULTILINE) *)

\* the pattern matches with its ^ at position i
CellsMatchAt(s, i) ==
    /\ AtLineStart(s, i)
    /\ LET j == SpaceEnd(s, i)
           k == DigitsEnd(s, j)
           l == SpaceEnd(s, k)
           m == l + Len(LitCells)
       IN  /\ k > j
           /\ l > k
           /\ LitAt(s, l, LitCells)
           /\ \E p \in m..SpaceEnd(s, m) : AtLineEnd(s, p)

\* group 1 of the match at i
CellsGroup(s, i) ==
    LET j == SpaceEnd(s, i) IN SubSeq(s, j, DigitsEnd(s, j) - 1)

\* the leftmost match: its start position, 0 when search returns None
SearchCells(s) ==
    IF \E i \in 1..(Len(s) + 1) : CellsMatchAt(s, i)
    THEN CHOOSE i \in 1..(Len(s) + 1) :
            /\ CellsMatchAt(s, i)
            /\ \A h \in 1..(i - 1) : ~CellsMatchAt(s, h)
    ELSE 0

----------------------------------------------------------------------------
(* re.finditer(r'\band\s*=\s*(\d+)', output) *)

\* end of a match that starts at i, 0 when there is none
AndMatchEnd(s, i) ==
    IF WordBoundary(s, i) /\ LitAt(s, i, LitAnd)
    THEN LET j == SpaceEnd(s, i + Len(LitAnd))
         IN  IF j <= Len(s) /\ s[j] = "="
             THEN LET k == SpaceEnd(s, j + 1)
                      e == DigitsEnd(s, k)
                  IN  IF e > k THEN e ELSE 0
             ELSE 0
    ELSE 0

\* group 1 of the match that starts at i
AndGroup(s, i) ==
    LET j == SpaceEnd(s, i + Len(LitAnd))
        k == SpaceEnd(s, j + 1)
    IN  SubSeq(s, k, DigitsEnd(s, k) - 1)

\* mutant of SumAnd: "abc_area = int(m.group(1))", which keeps the last match
RECURSIVE SumAnd_LastOnly(_, _)
SumAnd_LastOnly(s, i) ==
    IF i > Len(s) THEN 0
    ELSE LET e == AndMatchEnd(s, i)
         IN  IF e # 0
             THEN IF \E k \in e..Len(s) : AndMatchEnd(s, k) # 0
                  THEN SumAnd_LastOnly(s, e)
                  ELSE IntOf(AndGroup(s, i))
             ELSE SumAnd_LastOnly(s, i + 1)

\* the loop "for m in re.finditer(...): abc_area += int(m.group(1))"
RECURSIVE SumAnd(_, _)
SumAnd(s, i) ==
    IF i > Len(s) THEN 0
    ELSE LET e == AndMatchEnd(s, i)
         IN  IF e # 0
             THEN IntOf(AndGroup(s, i)) + SumAnd(s, e)
             ELSE SumAnd(s, i + 1)

----------------------------------------------------------------------------
(* get_counts, from the text run_yosys returned *)

\* mutant of ParseCounts: the second "objects" match is preferred to the
\* "cells" line
ParseCounts_SelectFirst(text) ==
    LET cnts == FindallObjects(text, 1)
        ff_count == IF Len(cnts) >= 1 THEN IntOf(cnts[1]) ELSE 0
        m == SearchCells(text)
        total_cells == IF Len(cnts) >= 2 THEN IntOf(cnts[2])
                       ELSE IF m # 0 THEN IntOf(CellsGroup(text, m)) ELSE 0
        abc_area == SumAnd(text, 1)
    IN  [ff |-> ff_count, total |-> total_cells, abc_area |-> abc_area,
         output |-> text]

ParseCounts(text) ==
    LET cnts == FindallObjects(text, 1)
        ff_count == IF Len(cnts) >= 1 THEN IntOf(cnts[1]) ELSE 0
        total_from_select == IF Len(cnts) >= 2 THEN IntOf(cnts[2]) ELSE 0
        m == SearchCells(text)
        total_cells == IF m # 0 THEN IntOf(CellsGroup(text, m))
                       ELSE total_from_select
        abc_area == SumAnd(text, 1)
    IN  [ff |-> ff_count, total |-> total_cells, abc_area |-> abc_area,
         output |-> text]

----------------------------------------------------------------------------
(* Report texts the synthesis tool may print *)

\* "42 objects\n": the reply to select -count over the flip-flop types
FragFF ==
    <<"4", "2", " ", "o", "b", "j", "e", "c", "t", "s", "\n">>
\* "137 objects\n": the reply to select -count *
FragAll ==
    <<"1", "3", "7", " ", "o", "b", "j", "e", "c", "t", "s", "\n">>
\* "130 cells\n": the summary line of stat
FragCells ==
    <<"1", "3", "0", " ", "c", "e", "l", "l", "s", "\n">>
\* "and = 50\n": a print_stats report of abc
FragAnd ==
    <<"a", "n", "d", " ", "=", " ", "5", "0", "\n">>
\* "nand = 5\n"
FragNand ==
    <<"n", "a", "n", "d", " ", "=", " ", "5", "\n">>
\* "and=7", with no line end: the next fragment continues the line
FragAndTight ==
    <<"a", "n", "d", "=", "7">>
\* " 9 cells x\n"
FragCellsJunk ==
    <<" ", "9", " ", "c", "e", "l", "l", "s", " ", "x", "\n">>
\* "3  objects\n"
FragTwoSpaces ==
    <<"3", " ", " ", "o", "b", "j", "e", "c", "t", "s", "\n">>
\* "8\ncells ", with no line end
FragCellsSplit ==
    <<"8", "\n", "c", "e", "l", "l", "s", " ">>

Fragments ==
    <<FragFF, FragAll, FragCells, FragAnd, FragNand, FragAndTight,
      FragCellsJunk, FragTwoSpaces, FragCellsSplit>>

\* "42 objects", "137 objects", a line "130 cells" and two "and = 50"
ScenarioText == FragFF \o FragAll \o FragCells \o FragAnd \o FragAnd

\* three abc reports: "and = 10", "and = 20", "and = 5"
AbcExample ==
    <<"a", "n", "d", " ", "=", " ", "1", "0", "\n",
      "a", "n", "d", " ", "=", " ", "2", "0", "\n",
      "a", "n", "d", " ", "=", " ", "5", "\n">>

\* all concatenations of at most n fragments
RECURSIVE TextsUpTo(_)
TextsUpTo(n) ==
    IF n = 0 THEN {<<>>}
    ELSE LET shorter == TextsUpTo(n - 1)
         IN  shorter \cup {t \o Fragments[k] :
                              t \in shorter, k \in 1..Len(Fragments)}

Texts == TextsUpTo(MaxFrags) \cup {ScenarioText, AbcExample}

----------------------------------------------------------------------------
(* Floats, as exact fractions in lowest terms *)

RECURSIVE Gcd(_, _)
Gcd(a, b) == IF b = 0 THEN a ELSE Gcd(b, a % b)

Frac(n, d) == LET g == Gcd(n, d) IN [num |-> n \div g, den |-> d \div g]

\* the float 0.0
Zero == [num |-> 0, den |-> 1]

\* the ZeroDivisionError that x / 0 raises
ZeroDivisionError == [num |-> 0, den |-> 0]

\* int / int
TrueDiv(n, d) == IF d = 0 THEN ZeroDivisionError ELSE Frac(n, d)

\* float * int
FloatMul(x, k) == IF x.den = 0 THEN x ELSE Frac(x.num * k, x.den)

RECURSIVE Pow10(_)
Pow10(d) == IF d = 0 THEN 1 ELSE 10 * Pow10(d - 1)

RECURSIVE IsPow2(_)
IsPow2(n) == n = 1 \/ (n > 1 /\ n % 2 = 0 /\ IsPow2(n \div 2))

\* the last d decimal digits of n, zero padded
RECURSIVE PadDigits(_, _)
PadDigits(n, d) ==
    IF d = 0 THEN "" ELSE PadDigits(n \div 10, d - 1) \o Digits[(n % 10) + 1]

\* mutant of FormatFixed: the value is cut after d decimals, not rounded
FormatFixed_Truncate(x, d) ==
    LET v == (x.num * Pow10(d)) \div x.den
    IN  {ToString(v \div Pow10(d)) \o "." \o PadDigits(v % Pow10(d), d)}

\* format(x, ".<d>f") for a float x >= 0: the strings it can give.  The value
\* is rounded to d decimals.  A fraction whose denominator is a power of
\* two is the double itself, and a tie rounds to the even digit; any other
\* fraction is a double next to it, and on a tie the side that double lies
\* on decides, so both roundings are possible.
FormatFixed(x, d) ==
    LET scaled == x.num * Pow10(d)
        q == scaled \div x.den
        r == scaled % x.den
        rounded == IF 2 * r < x.den THEN {q}
                   ELSE IF 2 * r > x.den THEN {q + 1}
                   ELSE IF IsPow2(x.den)
                        THEN {IF q % 2 = 0 THEN q ELSE q + 1}
                        ELSE {q, q + 1}
    IN  {ToString(v \div Pow10(d)) \o "." \o PadDigits(v % Pow10(d), d) :
            v \in rounded}

----------------------------------------------------------------------------
(* The metrics of one design, and its result record *)

\* mutant of ResultRecord: the ratio is guarded by "total >= 0"
ResultRecord_RatioGuard(tag, ff, total, abc_area, ff_size) ==
    LET logic == total - ff
        ratio == IF total >= 0 THEN TrueDiv(ff, total) ELSE Zero
        ff_area == ff * ff_size
        total_area == abc_area + ff_area
        ff_area_pct == IF total_area > 0
                       THEN FloatMul(TrueDiv(ff_area, total_area), 100)
                       ELSE Zero
    IN  [design |-> tag, ff |-> ff, logic |-> logic, total |-> total,
         ratio |-> ratio, abc_area |-> abc_area, ff_area |-> ff_area,
         total_area |-> total_area, ff_area_pct |-> ff_area_pct]

\* mutant of ResultRecord: the percentage is taken of the logic area alone
ResultRecord_PctOfLogic(tag, ff, total, abc_area, ff_size) ==
    LET logic == total - ff
        ratio == IF total > 0 THEN TrueDiv(ff, total) ELSE Zero
        ff_area == ff * ff_size
        total_area == abc_area + ff_area
        ff_area_pct == IF total_area > 0
                       THEN FloatMul(TrueDiv(ff_area, abc_area), 100)
                       ELSE Zero
    IN  [design |-> tag, ff |-> ff, logic |-> logic, total |-> total,
         ratio |-> ratio, abc_area |-> abc_area, ff_area |-> ff_area,
         total_area |-> total_area, ff_area_pct |-> ff_area_pct]

\* mutant of ResultRecord: a negative logic count is clamped to zero
ResultRecord_Clamped(tag, ff, total, abc_area, ff_size) ==
    LET logic == IF total - ff < 0 THEN 0 ELSE total - ff
        ratio == IF total > 0 THEN TrueDiv(ff, total) ELSE Zero
        ff_area == ff * ff_size
        total_area == abc_area + ff_area
        ff_area_pct == IF total_area > 0
                       THEN FloatMul(TrueDiv(ff_area, total_area), 100)
                       ELSE Zero
    IN  [design |-> tag, ff |-> ff, logic |-> logic, total |-> total,
         ratio |-> ratio, abc_area |-> abc_area, ff_area |-> ff_area,
         total_area |-> total_area, ff_area_pct |-> ff_area_pct]

ResultRecord(tag, ff, total, abc_area, ff_size) ==
    LET logic == total - ff
        ratio == IF total > 0 THEN TrueDiv(ff, total) ELSE Zero
        ff_area == ff * ff_size
        total_area == abc_area + ff_area
        ff_area_pct == IF total_area > 0
                       THEN FloatMul(TrueDiv(ff_area, total_area), 100)
                       ELSE Zero
    IN  [design |-> tag, ff |-> ff, logic |-> logic, total |-> total,
         ratio |-> ratio, abc_area |-> abc_area, ff_area |-> ff_area,
         total_area |-> total_area, ff_area_pct |-> ff_area_pct]

\* computing the record raises instead of returning
Raises(r) == r.ratio.den = 0 \/ r.ff_area_pct.den = 0

----------------------------------------------------------------------------
(* Rendering *)

CsvHeader ==
    "design,ff,logic,total,ff_ratio,abc_area,ff_area,total_area,ff_area_pct"

\* the CSV row of record r
CsvRows(r) ==
    {r.design \o "," \o ToString(r.ff) \o "," \o ToString(r.logic) \o ","
        \o ToString(r.total) \o "," \o a \o "," \o ToString(r.abc_area)
        \o "," \o ToString(r.ff_area) \o "," \o ToString(r.total_area)
        \o "," \o b :
        a \in FormatFixed(r.ratio, 4), b \in FormatFixed(r.ff_area_pct, 2)}

HumanHeader(ff_size) == "(ff_size=" \o ToString(ff_size) \o ")"

\* the human-readable line of record r
HumanLines(r) ==
    {r.design \o ": " \o ToString(r.ff) \o "/" \o ToString(r.total)
        \o " FF (" \o a \o "%), area: " \o ToString(r.abc_area)
        \o " logic + " \o ToString(r.ff_area) \o " FF = "
        \o ToString(r.total_area) \o " (" \o b \o "% FF)" :
        a \in FormatFixed(FloatMul(r.ratio, 100), 1),
        b \in FormatFixed(r.ff_area_pct, 1)}

----------------------------------------------------------------------------
(* Inputs of a run *)

Names == {"d" \o ToString(k) : k \in 1..MaxDesigns}

\* --param values: none, or one override
Params == {<<>>, <<"width=8">>}

\* fmt_params(params_from_str(param)), the canonical encoding in a tag
FmtParams(param) == IF param = <<>> THEN "" ELSE "width8"

\* lists of at most n distinct elements of S
DistinctLists(S, n) ==
    {s \in UNION {[1..k -> S] : k \in 0..n} :
        \A a, b \in 1..Len(s) : a # b => s[a] # s[b]}

\* subprocess.run results: the tool's exit status and its two streams
ToolRuns ==
    {[returncode |-> 0, stdout |-> ScenarioText, stderr |-> <<>>],
     [returncode |-> 1, stdout |-> FragFF, stderr |-> FragNand],
     [returncode |-> 0, stdout |-> FragAll \o FragFF, stderr |-> FragAndTight],
     [returncode |-> 1, stdout |-> FragTwoSpaces,
      stderr |-> FragNand \o FragCellsJunk],
     [returncode |-> 1, stdout |-> <<>>, stderr |-> <<>>]}

NoProc == [returncode |-> 0, stdout |-> <<>>, stderr |-> <<>>]
NoCounts == [ff |-> 0, total |-> 0, abc_area |-> 0, output |-> <<>>]

\* the characters of a text as one string
RECURSIVE Join(_)
Join(cs) == IF cs = <<>> THEN "" ELSE Head(cs) \o Join(Tail(cs))

\* Path("artifacts") / f"{tag}.il"
ArtifactPath(tag) == "artifacts/" \o tag \o ".il"

\* the synthesis script of get_counts, by its two variable parts
Script(artifact_path, flow) ==
    [read_rtlil |-> artifact_path,
     synth_cmd |-> IF flow = "flatten" THEN "synth -flatten -noabc"
                   ELSE "synth -noabc"]

\* result.stdout + result.stderr
RunYosys(result) == result.stdout \o result.stderr

----------------------------------------------------------------------------
(* main *)

\* A run with --design takes every flow and --ff-size of the model; a run
\* over the discovered designs takes the defaults of both.
Init ==
    /\ \E csv \in BOOLEAN, verbose \in BOOLEAN :
          \/ \E d \in Names, p \in Params, flow \in {"", "flatten"},
                ff_size \in {0, 6} :
                /\ args = [yosys |-> "yosys", design |-> d, param |-> p,
                           flow |-> flow, ff_size |-> ff_size, csv |-> csv,
                           verbose |-> verbose]
                /\ discovered = <<>>
                /\ artifacts \in SUBSET {IF p = <<>> THEN d
                                         ELSE d \o "_" \o FmtParams(p)}
          \/ /\ args = [yosys |-> "yosys", design |-> None, param |-> <<>>,
                        flow |-> "", ff_size |-> 6, csv |-> csv,
                        verbose |-> verbose]
             /\ discovered \in DistinctLists(Names, MaxDesigns)
             /\ artifacts \in SUBSET Names
    /\ pc = "select"
    /\ designs_to_run = <<>>
    /\ idx = 1
    /\ proc = NoProc
    /\ output = <<>>
    /\ counts = NoCounts
    /\ results = <<>>
    /\ row = 1
    /\ calls = <<>>
    /\ stdout = <<>>
    /\ stderr = <<>>
    /\ exit_code = <<>>

\* lines 134-142
SelectDesigns ==
    /\ pc = "select"
    /\ IF args.design # None
       THEN /\ designs_to_run' =
                  << <<args.design,
                       IF args.param # <<>>
                       THEN args.design \o "_" \o FmtParams(args.param)
                       ELSE args.design>> >>
            /\ pc' = "loop"
            /\ UNCHANGED <<stderr, exit_code>>
       ELSE IF discovered = <<>>
       THEN /\ stderr' = Append(stderr, "No designs found in artifacts/")
            /\ exit_code' = <<1>>
            /\ pc' = "exit"
            /\ UNCHANGED designs_to_run
       ELSE /\ designs_to_run' =
                  [k \in 1..Len(discovered) |-> <<discovered[k], discovered[k]>>]
            /\ pc' = "loop"
            /\ UNCHANGED <<stderr, exit_code>>
    /\ UNCHANGED <<args, discovered, artifacts, idx, proc, output, counts,
                   results, row, calls, stdout>>

\* mutant of SkipMissing: "break" in place of "continue"
SkipMissing_Break ==
    /\ pc = "loop"
    /\ idx <= Len(designs_to_run)
    /\ designs_to_run[idx][2] \notin artifacts
    /\ stderr' = Append(stderr, "Artifact not found: "
                                   \o ArtifactPath(designs_to_run[idx][2]))
    /\ idx' = Len(designs_to_run) + 1
    /\ UNCHANGED <<args, discovered, artifacts, pc, designs_to_run, proc,
                   output, counts, results, row, calls, stdout, exit_code>>

\* lines 145-149: the artifact of the next design is missing
SkipMissing ==
    /\ pc = "loop"
    /\ idx <= Len(designs_to_run)
    /\ designs_to_run[idx][2] \notin artifacts
    /\ stderr' = Append(stderr, "Artifact not found: "
                                   \o ArtifactPath(designs_to_run[idx][2]))
    /\ idx' = idx + 1
    /\ UNCHANGED <<args, discovered, artifacts, pc, designs_to_run, proc,
                   output, counts, results, row, calls, stdout, exit_code>>

\* lines 151, 70-83, 60: get_counts builds the script and starts the tool
StartYosys ==
    /\ pc = "loop"
    /\ idx <= Len(designs_to_run)
    /\ designs_to_run[idx][2] \in artifacts
    /\ calls' = Append(calls,
                  [bin |-> args.yosys,
                   script |-> Script(ArtifactPath(designs_to_run[idx][2]),
                                     args.flow)])
    /\ pc' = "yosys"
    /\ UNCHANGED <<args, discovered, artifacts, designs_to_run, idx, proc,
                   output, counts, results, row, stdout, stderr, exit_code>>

\* lines 60-65: subprocess.run returns, whatever the tool's exit status
YosysReturns ==
    /\ pc = "yosys"
    /\ \E result \in ToolRuns :
          /\ proc' = result
          /\ output' = RunYosys(result)
    /\ pc' = "parse"
    /\ UNCHANGED <<args, discovered, artifacts, designs_to_run, idx, counts,
                   results, row, calls, stdout, stderr, exit_code>>

\* mutant of ProcessDesign: a non-zero exit status of the tool is an error
\* and the design is skipped
ProcessDesign_StrictExit ==
    /\ pc = "parse"
    /\ LET c == ParseCounts(output)
           tag == designs_to_run[idx][2]
           r == ResultRecord(tag, c.ff, c.total, c.abc_area, args.ff_size)
       IN  /\ counts' = c
           /\ IF proc.returncode # 0
              THEN /\ stderr' = Append(stderr, "yosys failed: " \o tag)
                   /\ UNCHANGED results
              ELSE /\ results' = Append(results, r)
                   /\ UNCHANGED stderr
    /\ idx' = idx + 1
    /\ pc' = "loop"
    /\ UNCHANGED <<args, discovered, artifacts, designs_to_run, proc, output,
                   row, calls, stdout, exit_code>>

\* mutant of ProcessDesign: a design whose total came out zero is run again
ProcessDesign_Retry ==
    /\ pc = "parse"
    /\ LET c == ParseCounts(output)
           tag == designs_to_run[idx][2]
           r == ResultRecord(tag, c.ff, c.total, c.abc_area, args.ff_size)
       IN  /\ counts' = c
           /\ IF c.total = 0 /\ Len(calls) <= Len(designs_to_run)
              THEN UNCHANGED <<results, idx>>
              ELSE /\ results' = Append(results, r)
                   /\ idx' = idx + 1
    /\ pc' = "loop"
    /\ UNCHANGED <<args, discovered, artifacts, designs_to_run, proc, output,
                   row, calls, stdout, stderr, exit_code>>

\* lines 84-95 and 151-173: extract the counts, echo, compute, append
ProcessDesign ==
    /\ pc = "parse"
    /\ LET c == ParseCounts(output)
           design == designs_to_run[idx][1]
           tag == designs_to_run[idx][2]
           r == ResultRecord(tag, c.ff, c.total, c.abc_area, args.ff_size)
           echoed == IF args.verbose
                     THEN stdout \o <<"=== " \o design \o " ===",
                                      Join(c.output), "">>
                     ELSE stdout
       IN  /\ counts' = c
           /\ stdout' = echoed
           /\ IF Raises(r)
              THEN /\ stderr' = Append(stderr, "Traceback: ZeroDivisionError")
                   /\ exit_code' = <<1>>
                   /\ pc' = "exit"
                   /\ UNCHANGED <<results, idx>>
              ELSE /\ results' = Append(results, r)
                   /\ idx' = idx + 1
                   /\ pc' = "loop"
                   /\ UNCHANGED <<stderr, exit_code>>
    /\ UNCHANGED <<args, discovered, artifacts, designs_to_run, proc, output,
                   row, calls>>

\* mutant of NoResults: the diagnostic is printed but the exit status is 0
NoResults_ExitZero ==
    /\ pc = "loop"
    /\ idx > Len(designs_to_run)
    /\ results = <<>>
    /\ stderr' = Append(stderr, "No results")
    /\ exit_code' = <<0>>
    /\ pc' = "exit"
    /\ UNCHANGED <<args, discovered, artifacts, designs_to_run, idx, proc,
                   output, counts, results, row, calls, stdout>>

\* lines 175-177: the loop is over and nothing was produced
NoResults ==
    /\ pc = "loop"
    /\ idx > Len(designs_to_run)
    /\ results = <<>>
    /\ stderr' = Append(stderr, "No results")
    /\ exit_code' = <<1>>
    /\ pc' = "exit"
    /\ UNCHANGED <<args, discovered, artifacts, designs_to_run, idx, proc,
                   output, counts, results, row, calls, stdout>>

\* lines 179-180, 183-184: the loop is over, print the first line
PrintHeader ==
    /\ pc = "loop"
    /\ idx > Len(designs_to_run)
    /\ results # <<>>
    /\ stdout' = Append(stdout, IF args.csv THEN CsvHeader
                                ELSE HumanHeader(args.ff_size))
    /\ row' = 1
    /\ pc' = "rows"
    /\ UNCHANGED <<args, discovered, artifacts, designs_to_run, idx, proc,
                   output, counts, results, calls, stderr, exit_code>>

\* lines 181-182, 185-187: print one record
PrintRow ==
    /\ pc = "rows"
    /\ row <= Len(results)
    /\ \E line \in (IF args.csv THEN CsvRows(results[row])
                    ELSE HumanLines(results[row])) :
          stdout' = Append(stdout, line)
    /\ row' = row + 1
    /\ UNCHANGED <<args, discovered, artifacts, pc, designs_to_run, idx, proc,
                   output, counts, results, calls, stderr, exit_code>>

\* main returns: exit status 0
Return ==
    /\ pc = "rows"
    /\ row > Len(results)
    /\ exit_code' = <<0>>
    /\ pc' = "exit"
    /\ UNCHANGED <<args, discovered, artifacts, designs_to_run, idx, proc,
                   output, counts, results, row, calls, stdout, stderr>>

Next ==
    \/ SelectDesigns
    \/ SkipMissing
    \/ StartYosys
    \/ YosysReturns
    \/ ProcessDesign
    \/ NoResults
    \/ PrintHeader
    \/ PrintRow
    \/ Return

Spec == Init /\ [][Next]_vars

----------------------------------------------------------------------------
(* The extractor alone: get_counts on every text of Texts *)

Idle ==
    /\ args = [yosys |-> "yosys", design |-> None, param |-> <<>>,
               flow |-> "", ff_size |-> 6, csv |-> FALSE, verbose |-> FALSE]
    /\ discovered = <<>>
    /\ artifacts = {}
    /\ designs_to_run = <<>>
    /\ idx = 1
    /\ proc = NoProc
    /\ results = <<>>
    /\ row = 1
    /\ calls = <<>>
    /\ stdout = <<>>
    /\ stderr = <<>>
    /\ exit_code = <<>>

ExtractInit ==
    /\ Idle
    /\ pc = "extract"
    /\ output \in Texts
    /\ counts = NoCounts

\* lines 84-95
ExtractCounts ==
    /\ pc = "extract"
    /\ counts' = ParseCounts(output)
    /\ pc' = "extracted"
    /\ UNCHANGED <<args, discovered, artifacts, designs_to_run, idx, proc,
                   output, results, row, calls, stdout, stderr, exit_code>>

ExtractNext == ExtractCounts

ExtractSpec == ExtractInit /\ [][ExtractNext]_vars

----------------------------------------------------------------------------
(* The metrics calculation alone: lines 158-173 on every triple of counts *)

MetricsInit ==
    /\ \E w \in 0..MaxWeight :
          args = [yosys |-> "yosys", design |-> "d1", param |-> <<>>,
                  flow |-> "", ff_size |-> w, csv |-> TRUE, verbose |-> FALSE]
    /\ discovered = <<>>
    /\ artifacts = {"d1"}
    /\ designs_to_run = << <<"d1", "d1">> >>
    /\ idx = 1
    /\ proc = NoProc
    /\ output = <<>>
    /\ counts \in [ff : 0..MaxCount, total : 0..MaxCount,
                   abc_area : 0..MaxCount, output : {<<>>}]
    /\ results = <<>>
    /\ row = 1
    /\ calls = <<>>
    /\ stdout = <<>>
    /\ stderr = <<>>
    /\ exit_code = <<>>
    /\ pc = "metrics"

\* lines 158-173
ComputeMetrics ==
    /\ pc = "metrics"
    /\ LET r == ResultRecord(designs_to_run[idx][2], counts.ff, counts.total,
                             counts.abc_area, args.ff_size)
       IN  IF Raises(r)
           THEN /\ stderr' = Append(stderr, "Traceback: ZeroDivisionError")
                /\ exit_code' = <<1>>
                /\ pc' = "exit"
                /\ UNCHANGED results
           ELSE /\ results' = Append(results, r)
                /\ pc' = "computed"
                /\ UNCHANGED <<stderr, exit_code>>
    /\ UNCHANGED <<args, discovered, artifacts, designs_to_run, idx, proc,
                   output, counts, row, calls, stdout>>

MetricsNext == ComputeMetrics

MetricsSpec == MetricsInit /\ [][MetricsNext]_vars

----------------------------------------------------------------------------
(* What the three patterns mean, stated over positions of the text *)

AllDigits(s, a, b) == \A k \in a..b : IsDigit(s[k])
AllSpaces(s, a, b) == \A k \in a..b : IsSpace(s[k])

\* s[a..b] is a whole number: a non-empty run of digits no digit precedes or follows
NumberAt(s, a, b) ==
    /\ 1 <= a /\ a <= b /\ b <= Len(s)
    /\ AllDigits(s, a, b)
    /\ (a = 1 \/ ~IsDigit(s[a - 1]))
    /\ (b = Len(s) \/ ~IsDigit(s[b + 1]))

\* the <<a, b>> such that s[a..b] is a whole number
Numbers(s) ==
    {ab \in UNION {{<<a, b>> : b \in a..Len(s)} :
                      a \in {a \in 1..Len(s) : IsDigit(s[a])}} :
        NumberAt(s, ab[1], ab[2])}

\* <<a, b>> such that the number s[a..b] is followed by " objects"
ObjectsOccurrences(s) ==
    {ab \in Numbers(s) : LitAt(s, ab[2] + 1, LitObjects)}

\* <<a, b>> such that the number s[a..b] stands on a "<integer> cells" line:
\* only whitespace between a line start and the number, whitespace and
\* then "cells" after it, only whitespace from there to a line end
CellsOccurrences(s) ==
    {ab \in Numbers(s) :
        /\ \E i \in 1..ab[1] :
              AtLineStart(s, i) /\ AllSpaces(s, i, ab[1] - 1)
        /\ \E c \in (ab[2] + 2)..Len(s) :
              /\ AllSpaces(s, ab[2] + 1, c - 1)
              /\ LitAt(s, c, LitCells)
              /\ \E e \in (c + 5)..(Len(s) + 1) :
                    AllSpaces(s, c + 5, e - 1) /\ AtLineEnd(s, e)}

\* <<a, b>> such that the digits s[a..b] are the operand of an "and = <integer>":
\* the word "and", optional whitespace, "=", optional whitespace, the digits
AndOccurrences(s) ==
    {ab \in Numbers(s) :
        /\ \E i \in 1..ab[1], q \in 1..ab[1] :
              /\ LitAt(s, i, LitAnd)
              /\ (i = 1 \/ ~IsWord(s[i - 1]))
              /\ i + 3 <= q
              /\ AllSpaces(s, i + 3, q - 1)
              /\ s[q] = "="
              /\ AllSpaces(s, q + 1, ab[1] - 1)}

\* the occurrences of a set in text order
RECURSIVE InOrder(_)
InOrder(occ) ==
    IF occ = {} THEN <<>>
    ELSE LET first == CHOOSE x \in occ : \A y \in occ : x[1] <= y[1]
         IN  <<first>> \o InOrder(occ \ {first})

ValueAt(s, ab) == IntOf(SubSeq(s, ab[1], ab[2]))

RECURSIVE SumValues(_, _)
SumValues(s, occ) ==
    IF occ = {} THEN 0
    ELSE LET x == CHOOSE x \in occ : TRUE
         IN  ValueAt(s, x) + SumValues(s, occ \ {x})

----------------------------------------------------------------------------
(* Claims about the extractor, checked under ExtractSpec *)

\* C4: the total cell count is the integer of the (first) "<integer> cells"
\* line when the text has one, whatever the second "N objects" match says;
\* otherwise the second "N objects" match when there are at least two;
\* otherwise zero.
C4_TotalCellCountPolicy ==
    pc = "extracted" =>
        LET cells == InOrder(CellsOccurrences(output))
            objs == InOrder(ObjectsOccurrences(output))
        IN  counts.total =
                IF Len(cells) >= 1 THEN ValueAt(output, cells[1])
                ELSE IF Len(objs) >= 2 THEN ValueAt(output, objs[2])
                ELSE 0

\* C4 witness: a text with a cells line and a second objects match that
\* disagree; the cells line wins
C4_Witness ==
    /\ pc = "extracted"
    /\ output = ScenarioText
    /\ Len(InOrder(ObjectsOccurrences(output))) = 2
    /\ ValueAt(output, InOrder(ObjectsOccurrences(output))[2]) = 137
    /\ counts.total = 130

\* C5: the ABC area is the sum of the operands of all "and = <integer>"
\* occurrences, zero when there is none; 10, 20 and 5 give 35.
C5_AbcAreaIsSumOfAll ==
    pc = "extracted" =>
        /\ counts.abc_area = SumValues(output, AndOccurrences(output))
        /\ (AndOccurrences(output) = {} => counts.abc_area = 0)
        /\ (output = AbcExample => counts.abc_area = 35)

\* C5 witness: the three-report example has been extracted
C5_Witness ==
    /\ pc = "extracted"
    /\ output = AbcExample
    /\ Cardinality(AndOccurrences(output)) = 3
    /\ counts.abc_area = 35

----------------------------------------------------------------------------
(* Claims about the metrics, checked under MetricsSpec *)

\* the float x is the quotient n / d
IsQuotient(x, n, d) == x.den > 0 /\ x.num * d = n * x.den

\* the float x lies between the integers lo and hi
Between(x, lo, hi) == x.den > 0 /\ lo * x.den <= x.num /\ x.num <= hi * x.den

\* C6: for non-negative ff <= total with total > 0 the ratio is ff / total
\* and lies in [0, 1]; with total = 0 the ratio is exactly 0.0 and the
\* computation does not fail with a division by zero.
C6_FfRatio ==
    pc # "metrics" =>
        /\ pc = "computed"
        /\ exit_code = <<>>
        /\ Len(results) = 1
        /\ (counts.total > 0 /\ counts.ff <= counts.total =>
               /\ IsQuotient(results[1].ratio, counts.ff, counts.total)
               /\ Between(results[1].ratio, 0, 1))
        /\ (counts.total = 0 => results[1].ratio = Zero)

\* C6 witness: a proper ratio was computed, and it is not 0 or 1
C6_Witness ==
    /\ pc = "computed"
    /\ counts.ff = 2
    /\ counts.total = 6
    /\ results[1].ratio = [num |-> 1, den |-> 3]

\* C7: for non-negative abcArea, ff and weight: ffArea = ff * weight,
\* totalArea = abcArea + ffArea, ffAreaPct = ffArea / totalArea * 100 within
\* [0, 100] when totalArea > 0, and exactly 0.0 when totalArea = 0.
C7_AreaPercentage ==
    pc # "metrics" =>
        /\ pc = "computed"
        /\ Len(results) = 1
        /\ LET r == results[1]
           IN  /\ r.ff_area = counts.ff * args.ff_size
               /\ r.total_area = counts.abc_area + r.ff_area
               /\ (r.total_area > 0 =>
                      /\ IsQuotient(r.ff_area_pct, 100 * r.ff_area,
                                    r.total_area)
                      /\ Between(r.ff_area_pct, 0, 100))
               /\ (r.total_area = 0 => r.ff_area_pct = Zero)

\* C7 witness: flip-flops and logic both contribute area
C7_Witness ==
    /\ pc = "computed"
    /\ counts.ff = 1
    /\ args.ff_size = 3
    /\ counts.abc_area = 5
    /\ results[1].total_area = 8
    /\ results[1].ff_area_pct = [num |-> 75, den |-> 2]

----------------------------------------------------------------------------
(* Claims about a run of main, checked under Spec *)

\* the tags the run is asked for, from the command line and the discovery
RequestedTags ==
    IF args.design # None
    THEN <<IF args.param = <<>> THEN args.design
           ELSE args.design \o "_" \o FmtParams(args.param)>>
    ELSE discovered

HasArtifact(tag) == tag \in artifacts
LacksArtifact(tag) == tag \notin artifacts

\* the tags of the loop's list, in its order
TagsToRun == [k \in 1..Len(designs_to_run) |-> designs_to_run[k][2]]

MissingDiagnostic(tag) == "Artifact not found: artifacts/" \o tag \o ".il"

MissingDiagnostics(tags) ==
    [k \in 1..Len(tags) |-> MissingDiagnostic(tags[k])]

AllTags == Names \cup {n \o "_" \o FmtParams(p) : n \in Names, p \in Params}

IsMissingDiagnostic(line) == \E t \in AllTags : line = MissingDiagnostic(t)

\* the for loop over designs_to_run has run to its end
LoopOver ==
    \/ pc = "loop" /\ idx > Len(designs_to_run)
    \/ pc = "rows"
    \/ pc = "exit" /\ designs_to_run # <<>>

\* C1: main exits with status 0 exactly when at least one record was
\* produced; with status 1 when the discovery finds no design; and with
\* status 1, the diagnostics written to the error stream, when every design
\* asked for lacks its artifact file.
C1_ExitCode ==
    pc = "exit" =>
        /\ exit_code \in {<<0>>, <<1>>}
        /\ (exit_code = <<0>> <=> results # <<>>)
        /\ (args.design = None /\ discovered = <<>> =>
               exit_code = <<1>> /\ stderr # <<>>)
        /\ (RequestedTags # <<>>
              /\ SelectSeq(RequestedTags, HasArtifact) = <<>> =>
               /\ exit_code = <<1>>
               /\ stderr = MissingDiagnostics(RequestedTags)
                              \o <<"No results">>)

\* C1 witness: two discovered designs, both without artifact, exit status 1
C1_Witness ==
    /\ pc = "exit"
    /\ Len(RequestedTags) = 2
    /\ SelectSeq(RequestedTags, HasArtifact) = <<>>
    /\ exit_code = <<1>>
    /\ Len(stderr) = 3

\* C2: once the loop is over, the records are those of the designs whose
\* artifact exists, one each, in the order of the list, none for a design
\* whose artifact is missing; and the error stream holds one diagnostic per
\* skipped design.  A missing artifact does not stop the designs after it.
C2_MissingOnlySkips ==
    LoopOver =>
        /\ [k \in 1..Len(results) |-> results[k].design]
              = SelectSeq(TagsToRun, HasArtifact)
        /\ SelectSeq(stderr, IsMissingDiagnostic)
              = MissingDiagnostics(SelectSeq(TagsToRun, LacksArtifact))

\* C2 witness: the first design was skipped and the second one has its record
C2_Witness ==
    /\ LoopOver
    /\ Len(designs_to_run) = 2
    /\ designs_to_run[1][2] \notin artifacts
    /\ designs_to_run[2][2] \in artifacts
    /\ Len(results) = 1
    /\ results[1].design = designs_to_run[2][2]
    /\ stderr[1] = MissingDiagnostic(designs_to_run[1][2])

\* the text has no match of any of the three patterns
NoPatterns(s) ==
    /\ ObjectsOccurrences(s) = {}
    /\ CellsOccurrences(s) = {}
    /\ AndOccurrences(s) = {}

ZeroRecord(r) ==
    /\ r.ff = 0
    /\ r.total = 0
    /\ r.abc_area = 0
    /\ r.ratio = Zero
    /\ r.ff_area_pct = Zero

\* C3: once the tool has returned for a design whose artifact exists, a
\* record for that design is appended whatever the exit status and the text,
\* and nothing is raised or reported; a text without any of the patterns
\* (the empty text included) gives zero counts and 0.0 for ratio and
\* percentage; and a run with at least one such design exits with status 0.
C3_FailSoft ==
    /\ [](pc = "exit" /\ SelectSeq(RequestedTags, HasArtifact) # <<>> =>
             exit_code = <<0>>)
    /\ [][pc = "parse" =>
             /\ pc' = "loop"
             /\ Len(results') = Len(results) + 1
             /\ SubSeq(results', 1, Len(results)) = results
             /\ results'[Len(results')].design = designs_to_run[idx][2]
             /\ stderr' = stderr
             /\ exit_code' = <<>>
             /\ (NoPatterns(output) => ZeroRecord(results'[Len(results')]))]_vars

\* C3 witness: the tool failed with no output, and the run still ended with
\* status 0 and a zero record
C3_Witness ==
    /\ pc = "exit"
    /\ exit_code = <<0>>
    /\ proc.returncode = 1
    /\ output = <<>>
    /\ Len(results) = 1
    /\ ZeroRecord(results[1])

\* C8: the text with "42 objects", "137 objects", "130 cells" and two
\* "and = 50", with ff_size 6, gives ff 42, total 130, logic 88, abc_area
\* 100, ff_area 252, total_area 352; and CSV mode prints the header and then
\* exactly "<tag>,42,88,130,0.3231,100,252,352,71.59".
C8_EndToEnd ==
    /\ (pc \in {"loop", "rows", "exit"} /\ results # <<>>
           /\ output = ScenarioText /\ args.ff_size = 6 =>
           LET r == results[Len(results)]
           IN  /\ r.ff = 42
               /\ r.total = 130
               /\ r.logic = 88
               /\ r.abc_area = 100
               /\ r.ff_area = 252
               /\ r.total_area = 352)
    /\ (pc = "exit" /\ exit_code = <<0>> /\ args.csv /\ Len(results) = 1
           /\ output = ScenarioText /\ args.ff_size = 6 =>
           /\ Len(stdout) >= 2
           /\ SubSeq(stdout, Len(stdout) - 1, Len(stdout))
                 = <<CsvHeader,
                     results[1].design
                        \o ",42,88,130,0.3231,100,252,352,71.59">>)

\* C8 witness: the scenario was run alone in CSV mode and its row printed
C8_Witness ==
    /\ pc = "exit"
    /\ args.csv
    /\ args.ff_size = 6
    /\ output = ScenarioText
    /\ Len(results) = 1
    /\ stdout = <<CsvHeader, "d1,42,88,130,0.3231,100,252,352,71.59">>

\* the line printed for record k once the rendering is over
PrintedLine(k) == stdout[Len(stdout) - Len(results) + k]

\* what the rendering of record r can print in the mode of this run
Rendered(r) == IF args.csv THEN CsvRows(r) ELSE HumanLines(r)

\* the flip-flop count policy: the first "N objects" match, else zero
FirstObjectsValue(s) ==
    LET objs == InOrder(ObjectsOccurrences(s))
    IN  IF Len(objs) >= 1 THEN ValueAt(s, objs[1]) ELSE 0

\* the record part of C9: ff is the first "N objects" match of the text, and
\* logic is total - ff in every record, negative when ff exceeds total
RecordKeepsLogic ==
    /\ (pc \in {"loop", "rows", "exit"} /\ results # <<>> =>
           results[Len(results)].ff = FirstObjectsValue(output))
    /\ \A k \in 1..Len(results) :
           results[k].logic = results[k].total - results[k].ff

\* C9 as stated: ff is the first "N objects" match, logic is total - ff
\* unclamped, and a negative logic count is carried into the rendered
\* output: the line printed for such a record shows it, so it is not a line
\* the record with another logic count could print.
C9_NegativeLogicRendered ==
    /\ RecordKeepsLogic
    /\ (pc = "exit" /\ exit_code = <<0>> =>
           \A k \in 1..Len(results) :
               results[k].ff > results[k].total =>
                   PrintedLine(k) \notin
                       Rendered([results[k] EXCEPT !.logic = 0]))

\* C9 amended: ff is the first "N objects" match, logic is total - ff
\* unclamped in the record, and CSV mode prints the negative logic count as
\* the third field of the row; the human-readable line has no logic field.
C9_NegativeLogicInRecordAndCsv ==
    /\ RecordKeepsLogic
    /\ (pc = "exit" /\ exit_code = <<0>> /\ args.csv =>
           \A k \in 1..Len(results) :
               LET r == results[k]
               IN  /\ \E a \in FormatFixed(r.ratio, 4),
                         b \in FormatFixed(r.ff_area_pct, 2) :
                         PrintedLine(k) =
                             r.design \o "," \o ToString(r.ff) \o ","
                                \o ToString(r.total - r.ff) \o ","
                                \o ToString(r.total) \o "," \o a \o ","
                                \o ToString(r.abc_area) \o ","
                                \o ToString(r.ff_area) \o ","
                                \o ToString(r.total_area) \o "," \o b
                   /\ (r.ff > r.total =>
                          PrintedLine(k) \notin
                              Rendered([r EXCEPT !.logic = 0])))
    /\ (pc = "exit" /\ exit_code = <<0>> /\ ~args.csv =>
           \A k \in 1..Len(results) :
               PrintedLine(k) \in Rendered([results[k] EXCEPT !.logic = 0]))

\* C9 witness: a single "42 objects" and no cells line; the CSV row shows -42
C9_Witness ==
    /\ pc = "exit"
    /\ args.csv
    /\ Len(results) = 1
    /\ results[1].ff = 42
    /\ results[1].total = 0
    /\ results[1].logic = 0 - 42
    /\ stdout[Len(stdout)] = "d1,42,-42,0,0.0000,0,252,252,100.00"

\* C10: the tool is invoked once for each design whose artifact exists and
\* never for one whose artifact is missing, in the order of the list; an
\* invocation starts only when the record of the one before is appended; and
\* no summary line or CSV row is printed before every design is processed.
C10_Sequential ==
    LET running == pc \in {"yosys", "parse"}
        started == IF running THEN idx ELSE idx - 1
        existing == SelectSeq(SubSeq(TagsToRun, 1, started), HasArtifact)
    IN  /\ [k \in 1..Len(calls) |-> calls[k].script.read_rtlil]
              = [k \in 1..Len(existing) |-> "artifacts/" \o existing[k] \o ".il"]
        /\ Len(calls) = Len(results) + (IF running THEN 1 ELSE 0)
        /\ (pc \in {"select", "yosys", "parse"}
               \/ (pc = "loop" /\ idx <= Len(designs_to_run)) =>
               Len(stdout) = IF args.verbose THEN 3 * Len(results) ELSE 0)
        /\ (pc = "exit" /\ designs_to_run # <<>> =>
               idx = Len(designs_to_run) + 1)

\* C10 witness: the second invocation is running, the first record is in,
\* nothing is printed
C10_Witness ==
    /\ pc = "yosys"
    /\ idx = 2
    /\ Len(calls) = 2
    /\ Len(results) = 1
    /\ ~args.verbose
    /\ stdout = <<>>

====
